---- MODULE Spec2Model ----
(***************************************************************************)
(* Model of scanner/macos.go: the two text parsers of the macOS scanner,   *)
(*   parseSWVers              (output of sw_vers -> family, version)       *)
(*   macos.parseInstalledPackages  (Info.plist / CFBundleShortVersionString *)
(*                             blocks -> models.Packages)                  *)
(* Go strings are TLA+ strings; the string functions of the Go library     *)
(* that the parsers call are operators computed on the characters.         *)
(* A bufio.Scanner over the text is the sequence of lines it yields        *)
(* (stdout, each line as scanner.Text() returns it, without its line end), *)
(* the index of the next line (i) and, when the lines are used up, whether *)
(* scanner.Err() is nil or not (a token longer than the scanner's buffer   *)
(* stops the scan with an error).                                          *)
(***************************************************************************)
EXTENDS Naturals, Sequences, FiniteSets

VARIABLES
    stdout,     \* the lines scanner.Scan() yields, in order
    i,          \* index in stdout of the line the next Scan() yields
    pc,         \* "scan": in the for loop; "done": the function returned
    name,       \* parseSWVers: var name
    version,    \* parseSWVers: var version
    p,          \* parseInstalledPackages: var p (pending path)
    v,          \* parseInstalledPackages: var v (pending version)
    pkgs,       \* parseInstalledPackages: pkgs, a map name -> models.Package
    ret         \* the returned tuple, once pc = "done"

vars == <<stdout, i, pc, name, version, p, v, pkgs, ret>>

\* Longest input, in lines.
MaxLines == 4

(***************************************************************************)
(* Go library functions, on strings.                                       *)
(***************************************************************************)
CharAt(s, k) == SubSeq(s, k, k)

HasPrefix(s, prefix) ==
    Len(s) >= Len(prefix) /\ SubSeq(s, 1, Len(prefix)) = prefix

TrimPrefix(s, prefix) ==
    IF HasPrefix(s, prefix) THEN SubSeq(s, Len(prefix) + 1, Len(s)) ELSE s

HasSuffix(s, suffix) ==
    Len(s) >= Len(suffix) /\ SubSeq(s, Len(s) - Len(suffix) + 1, Len(s)) = suffix

TrimSuffix(s, suffix) ==
    IF HasSuffix(s, suffix) THEN SubSeq(s, 1, Len(s) - Len(suffix)) ELSE s

\* unicode.IsSpace, for the white space a TLA+ string can hold.
IsSpace(c) == c \in {" ", "\t", "\n", "\r", "\f"}

\* The index of the first character of s at or after k that is not white
\* space (Len(s) + 1 without one), and of the last one at or before k (0).
RECURSIVE FirstNonSpace(_, _)
FirstNonSpace(s, k) ==
    IF k > Len(s) \/ ~IsSpace(CharAt(s, k)) THEN k ELSE FirstNonSpace(s, k + 1)

RECURSIVE LastNonSpace(_, _)
LastNonSpace(s, k) ==
    IF k < 1 \/ ~IsSpace(CharAt(s, k)) THEN k ELSE LastNonSpace(s, k - 1)

TrimSpace(s) == SubSeq(s, FirstNonSpace(s, 1), LastNonSpace(s, Len(s)))

\* strings.Index for a one-character sep, from position k on; 0: not found.
RECURSIVE Index(_, _, _)
Index(s, sep, k) ==
    IF k > Len(s) THEN 0
    ELSE IF CharAt(s, k) = sep THEN k
    ELSE Index(s, sep, k + 1)

\* strings.Cut(s, sep) for a one-character sep: (before, after, found).
Cut(s, sep) ==
    LET at == Index(s, sep, 1)
    IN  IF at = 0
        THEN [before |-> s, after |-> "", found |-> FALSE]
        ELSE [before |-> SubSeq(s, 1, at - 1),
              after  |-> SubSeq(s, at + 1, Len(s)),
              found  |-> TRUE]

\* The last index at or before k of a character of path that is a
\* separator (sep = TRUE) or is none (sep = FALSE); 0 without one.
RECURSIVE LastIndex(_, _, _)
LastIndex(path, sep, k) ==
    IF k < 1 THEN 0
    ELSE IF (CharAt(path, k) = "/") = sep THEN k
    ELSE LastIndex(path, sep, k - 1)

\* filepath.Base: trailing separators dropped, then the last element;
\* "." for the empty path, "/" for a path of separators only.
Base(path) ==
    LET last == LastIndex(path, FALSE, Len(path))
    IN  IF path = "" THEN "."
        ELSE IF last = 0 THEN "/"
        ELSE SubSeq(path, LastIndex(path, TRUE, last) + 1, last)

(***************************************************************************)
(* Values shared by the two parsers.                                       *)
(***************************************************************************)
Nil == "<nil>"          \* the nil error
NilRef == <<>>          \* a nil map; a non-nil map m is <<m>>
NoRet == <<>>           \* nothing returned yet

ScanErr == "Failed to scan by the scanner. err: bufio.Scanner: token too long"

(***************************************************************************)
(* parseSWVers                                                             *)
(***************************************************************************)
\* constant.MacOSX, constant.MacOSXServer, constant.MacOS,
\* constant.MacOSServer: the four family identifiers of package constant,
\* under the names the specification gives the families.
MacOSX == "ClassicMacOS"
MacOSXServer == "ClassicMacOSServer"
MacOS == "ModernMacOS"
MacOSServer == "ModernMacOSServer"

\* The lines a version report is drawn from.
SWLines ==
    { "ProductName:\t\tMac OS X",
      "ProductName:\t\tMac OS X Server",
      "ProductName:\t\tmacOS",
      "ProductName: macOS Server\t",
      "ProductName:\t\tMacOS",
      "ProductVersion:\t\t13.4.1",
      "ProductVersion: 10.3 ",
      "ProductVersion:\t\t",
      "BuildVersion:\t\t22F82",
      " ProductName:\t\tMac OS X" }

Texts(Lines) == UNION {[1..n -> Lines] : n \in 0..MaxLines}

InitSWVers ==
    /\ stdout \in Texts(SWLines)
    /\ i = 1
    /\ pc = "scan"
    /\ name = ""
    /\ version = ""
    /\ p = ""
    /\ v = ""
    /\ pkgs = <<>>
    /\ ret = NoRet

\* SWProductName keeping the first value seen instead of the last.
SWProductNameFirstWins ==
    /\ pc = "scan"
    /\ i <= Len(stdout)
    /\ HasPrefix(stdout[i], "ProductName:")
    /\ name' = IF name = "" THEN TrimSpace(TrimPrefix(stdout[i], "ProductName:"))
                            ELSE name
    /\ i' = i + 1
    /\ UNCHANGED <<stdout, pc, version, p, v, pkgs, ret>>

\* case strings.HasPrefix(t, "ProductName:")
SWProductName ==
    /\ pc = "scan"
    /\ i <= Len(stdout)
    /\ HasPrefix(stdout[i], "ProductName:")
    /\ name' = TrimSpace(TrimPrefix(stdout[i], "ProductName:"))
    /\ i' = i + 1
    /\ UNCHANGED <<stdout, pc, version, p, v, pkgs, ret>>

\* case strings.HasPrefix(t, "ProductVersion:")
SWProductVersion ==
    /\ pc = "scan"
    /\ i <= Len(stdout)
    /\ ~HasPrefix(stdout[i], "ProductName:")
    /\ HasPrefix(stdout[i], "ProductVersion:")
    /\ version' = TrimSpace(TrimPrefix(stdout[i], "ProductVersion:"))
    /\ i' = i + 1
    /\ UNCHANGED <<stdout, pc, name, p, v, pkgs, ret>>

\* a line that matches neither case of the switch
SWOtherLine ==
    /\ pc = "scan"
    /\ i <= Len(stdout)
    /\ ~HasPrefix(stdout[i], "ProductName:")
    /\ ~HasPrefix(stdout[i], "ProductVersion:")
    /\ i' = i + 1
    /\ UNCHANGED <<stdout, pc, name, version, p, v, pkgs, ret>>

SWFailure(msg) == [family |-> "", version |-> "", err |-> msg]

\* SWValidate checking the version before the name.
SWValidateVersionFirst(nm, ver) ==
    IF ver = ""
    THEN SWFailure("Failed to get ProductVersion string. err: ProductVersion is empty")
    ELSE IF nm \notin {"Mac OS X", "Mac OS X Server", "macOS", "macOS Server"}
    THEN SWFailure("Failed to detect MacOS Family. err: \"" \o nm
                      \o "\" is unexpected product name")
    ELSE [family |-> CASE nm = "Mac OS X"        -> MacOSX
                       [] nm = "Mac OS X Server" -> MacOSXServer
                       [] nm = "macOS"           -> MacOS
                       [] nm = "macOS Server"    -> MacOSServer,
          version |-> ver, err |-> Nil]

\* The switch on name and the check of version, after the loop.
SWValidate(nm, ver) ==
    LET family == CASE nm = "Mac OS X"        -> <<MacOSX>>
                    [] nm = "Mac OS X Server" -> <<MacOSXServer>>
                    [] nm = "macOS"           -> <<MacOS>>
                    [] nm = "macOS Server"    -> <<MacOSServer>>
                    [] OTHER                  -> <<>>
    IN  IF family = <<>>
        THEN SWFailure("Failed to detect MacOS Family. err: \"" \o nm
                          \o "\" is unexpected product name")
        ELSE IF ver = ""
        THEN SWFailure("Failed to get ProductVersion string. err: ProductVersion is empty")
        ELSE [family |-> family[1], version |-> ver, err |-> Nil]

\* What parseSWVers returns once the scanner has no more lines; scanErr is
\* scanner.Err() # nil.
SWReturnValue(nm, ver, scanErr) ==
    IF scanErr THEN SWFailure(ScanErr) ELSE SWValidate(nm, ver)

SWReturn ==
    /\ pc = "scan"
    /\ i > Len(stdout)
    /\ \E scanErr \in BOOLEAN : ret' = SWReturnValue(name, version, scanErr)
    /\ pc' = "done"
    /\ UNCHANGED <<stdout, i, name, version, p, v, pkgs>>

NextSWVers == SWProductName \/ SWProductVersion \/ SWOtherLine \/ SWReturn

SpecSWVers == InitSWVers /\ [][NextSWVers]_vars

(***************************************************************************)
(* Properties of parseSWVers.  What a line of the version report says is   *)
(* written down here line by line, independently of the parser.            *)
(***************************************************************************)
Min(S) == CHOOSE x \in S : \A y \in S : x <= y
Max(S) == CHOOSE x \in S : \A y \in S : x >= y

SWKey(line) ==
    CASE line \in { "ProductName:\t\tMac OS X", "ProductName:\t\tMac OS X Server",
                    "ProductName:\t\tmacOS", "ProductName: macOS Server\t",
                    "ProductName:\t\tMacOS" } -> "ProductName"
      [] line \in { "ProductVersion:\t\t13.4.1", "ProductVersion: 10.3 ",
                    "ProductVersion:\t\t" } -> "ProductVersion"
      [] OTHER -> "other"

SWValue(line) ==
    CASE line = "ProductName:\t\tMac OS X"        -> "Mac OS X"
      [] line = "ProductName:\t\tMac OS X Server" -> "Mac OS X Server"
      [] line = "ProductName:\t\tmacOS"           -> "macOS"
      [] line = "ProductName: macOS Server\t"     -> "macOS Server"
      [] line = "ProductName:\t\tMacOS"           -> "MacOS"
      [] line = "ProductVersion:\t\t13.4.1"       -> "13.4.1"
      [] line = "ProductVersion: 10.3 "           -> "10.3"
      [] OTHER                                    -> ""

SWLinesOf(key) == {k \in 1..Len(stdout) : SWKey(stdout[k]) = key}

\* The value of the last line of the report with this key; "" without one.
SWLast(key) ==
    IF SWLinesOf(key) = {} THEN "" ELSE SWValue(stdout[Max(SWLinesOf(key))])

KnownProductNames == {"Mac OS X", "Mac OS X Server", "macOS", "macOS Server"}

FamilyOf(productName) ==
    CASE productName = "Mac OS X"        -> MacOSX
      [] productName = "Mac OS X Server" -> MacOSXServer
      [] productName = "macOS"           -> MacOS
      [] productName = "macOS Server"    -> MacOSServer

ErrProductName(nm) ==
    "Failed to detect MacOS Family. err: \"" \o nm \o "\" is unexpected product name"

ErrProductVersion ==
    "Failed to get ProductVersion string. err: ProductVersion is empty"

\* The scanner read every line of the report (scanner.Err() was nil).
SWScanned == pc = "done" /\ ret.err # ScanErr

\* C1: when the last ProductName line names one of the four known products
\* and the last ProductVersion line has a non-empty trimmed value,
\* parseSWVers succeeds with the family of that name and that version;
\* earlier occurrences of either key and all other lines do not matter.
C1_LastValuesDecide ==
    (SWScanned /\ SWLast("ProductName") \in KnownProductNames
               /\ SWLast("ProductVersion") # "")
        => ret = [family  |-> FamilyOf(SWLast("ProductName")),
                  version |-> SWLast("ProductVersion"),
                  err     |-> Nil]

\* A report with a line of another key, a ProductVersion line and two
\* ProductName lines of different values, parsed with success: the family
\* is that of the later name.
C1_Witness ==
    /\ SWScanned
    /\ ret.err = Nil
    /\ SWLinesOf("other") # {}
    /\ \E k \in SWLinesOf("ProductName") :
           SWValue(stdout[k]) # SWLast("ProductName")
    /\ ret.family = FamilyOf(SWLast("ProductName"))

\* C2: an unrecognized product name (also none at all) gives the
\* unexpected-product-name error whatever the version is; the
\* empty-ProductVersion error is returned exactly when the name is known and
\* the version is empty after trimming; a failure returns "" and "".
C2_ValidationOrder ==
    SWScanned =>
        /\ SWLast("ProductName") \notin KnownProductNames
              => ret.err = ErrProductName(SWLast("ProductName"))
        /\ ret.err = ErrProductVersion
              <=> (SWLast("ProductName") \in KnownProductNames
                     /\ SWLast("ProductVersion") = "")
        /\ ret.err # Nil => (ret.family = "" /\ ret.version = "")

\* The near-miss name "MacOS" together with a whitespace-only version:
\* the name error is the one returned.
C2_Witness ==
    /\ SWScanned
    /\ SWLast("ProductName") = "MacOS"
    /\ SWLinesOf("ProductVersion") # {}
    /\ SWLast("ProductVersion") = ""
    /\ ret = [family |-> "", version |-> "", err |-> ErrProductName("MacOS")]

(***************************************************************************)
(* macos.parseInstalledPackages                                            *)
(***************************************************************************)
\* The lines an inventory text is drawn from.
PkgLines ==
    { "",
      "Info.plist: /Applications/Visual Studio Code.app/Contents/Info.plist",
      "Info.plist: /Applications/Safari.app/Contents/Info.plist",
      "Info.plist: /System/Applications/Safari.app/Contents/Info.plist",
      "Info.plist:",
      "CFBundleShortVersionString: 16.5.1\t",
      "CFBundleShortVersionString: /System/Applications/Contacts.app/Contents/Info.plist: Could not extract value, error: No value at that key path or invalid key path: CFBundleShortVersionString\t",
      "CFBundleShortVersionString: error: No value at that key path or invalid key path: CFBundleShortVersionString",
      "Safari 16.5.1",
      "BuildVersion: 22F82" }

\* lhs, rhs, ok := strings.Cut(t, ":") for every line t a text is drawn
\* from, computed once.
CutLine == [t \in PkgLines |-> Cut(t, ":")]

InitInstalled ==
    /\ stdout \in Texts(PkgLines)
    /\ i = 1
    /\ pc = "scan"
    /\ name = ""
    /\ version = ""
    /\ p = ""
    /\ v = ""
    /\ pkgs = <<>>
    /\ ret = NoRet

\* Store keeping the entry a name already has.
StoreIfAbsent(m, n, pkg) ==
    [k \in DOMAIN m \cup {n} |-> IF k \in DOMAIN m THEN m[k] ELSE pkg]

\* pkgs[n] = pkg
Store(m, n, pkg) == [k \in DOMAIN m \cup {n} |-> IF k = n THEN pkg ELSE m[k]]

\* Finalize naming the record after the last element of the whole path.
FinalizeNoTrim(m, path, ver) ==
    IF path # ""
    THEN Store(m, Base(path), [Name |-> Base(path), Version |-> ver])
    ELSE m

\* if p != "" { n := filepath.Base(strings.TrimSuffix(p, ...)); pkgs[n] = ... }
Finalize(m, path, ver) ==
    IF path # ""
    THEN LET n == Base(TrimSuffix(path, ".app/Contents/Info.plist"))
         IN  Store(m, n, [Name |-> n, Version |-> ver])
    ELSE m

\* AtBlankLine clearing p and v only when a record was stored.
AtBlankLineKeepsPending(m, path, ver) ==
    IF path # ""
    THEN [pkgs |-> Finalize(m, path, ver), p |-> "", v |-> ""]
    ELSE [pkgs |-> m, p |-> path, v |-> ver]

\* The body of `if t == ""`: the pending record is stored, p and v cleared.
AtBlankLine(m, path, ver) ==
    [pkgs |-> Finalize(m, path, ver), p |-> "", v |-> ""]

PkgBlankLine ==
    /\ pc = "scan"
    /\ i <= Len(stdout)
    /\ stdout[i] = ""
    /\ LET next == AtBlankLine(pkgs, p, v)
       IN  pkgs' = next.pkgs /\ p' = next.p /\ v' = next.v
    /\ i' = i + 1
    /\ UNCHANGED <<stdout, pc, name, version, ret>>

PkgFailure(msg) == [pkgs |-> NilRef, srcPkgs |-> NilRef, err |-> msg]

\* PkgNoColon returning the inventory built so far with the error.
PkgNoColonPartial ==
    /\ pc = "scan"
    /\ i <= Len(stdout)
    /\ stdout[i] # ""
    /\ ~CutLine[stdout[i]].found
    /\ ret' = [pkgs |-> <<pkgs>>, srcPkgs |-> NilRef,
               err |-> "unexpected installed packages line. expected: \"<TAG>: <VALUE>\", actual: \""
                          \o stdout[i] \o "\""]
    /\ pc' = "done"
    /\ UNCHANGED <<stdout, i, name, version, p, v, pkgs>>

\* lhs, rhs, ok := strings.Cut(t, ":"); if !ok { return nil, nil, ... }
PkgNoColon ==
    /\ pc = "scan"
    /\ i <= Len(stdout)
    /\ stdout[i] # ""
    /\ ~CutLine[stdout[i]].found
    /\ ret' = PkgFailure("unexpected installed packages line. expected: \"<TAG>: <VALUE>\", actual: \""
                            \o stdout[i] \o "\"")
    /\ pc' = "done"
    /\ UNCHANGED <<stdout, i, name, version, p, v, pkgs>>

\* PkgInfoPlist starting a new record: the pending version is cleared.
PkgInfoPlistClearsVersion ==
    /\ pc = "scan"
    /\ i <= Len(stdout)
    /\ stdout[i] # ""
    /\ LET cut == CutLine[stdout[i]]
       IN  /\ cut.found
           /\ cut.before = "Info.plist"
           /\ p' = TrimSpace(cut.after)
    /\ v' = ""
    /\ i' = i + 1
    /\ UNCHANGED <<stdout, pc, name, version, pkgs, ret>>

\* case "Info.plist"
PkgInfoPlist ==
    /\ pc = "scan"
    /\ i <= Len(stdout)
    /\ stdout[i] # ""
    /\ LET cut == CutLine[stdout[i]]
       IN  /\ cut.found
           /\ cut.before = "Info.plist"
           /\ p' = TrimSpace(cut.after)
    /\ i' = i + 1
    /\ UNCHANGED <<stdout, pc, name, version, v, pkgs, ret>>

\* VersionOf without the rule for the sentinel.
VersionOfAsIs(rhs) == TrimSpace(rhs)

\* v = strings.TrimSpace(rhs); if strings.HasSuffix(v, "error: ...") { v = "" }
VersionOf(rhs) ==
    IF HasSuffix(TrimSpace(rhs),
                 "error: No value at that key path or invalid key path: CFBundleShortVersionString")
    THEN ""
    ELSE TrimSpace(rhs)

\* case "CFBundleShortVersionString"
PkgShortVersion ==
    /\ pc = "scan"
    /\ i <= Len(stdout)
    /\ stdout[i] # ""
    /\ LET cut == CutLine[stdout[i]]
       IN  /\ cut.found
           /\ cut.before = "CFBundleShortVersionString"
           /\ v' = VersionOf(cut.after)
    /\ i' = i + 1
    /\ UNCHANGED <<stdout, pc, name, version, p, pkgs, ret>>

\* PkgUnexpectedTag skipping the line instead of returning.
PkgUnexpectedTagSkipped ==
    /\ pc = "scan"
    /\ i <= Len(stdout)
    /\ stdout[i] # ""
    /\ LET cut == CutLine[stdout[i]]
       IN  cut.found /\ cut.before \notin {"Info.plist", "CFBundleShortVersionString"}
    /\ i' = i + 1
    /\ UNCHANGED <<stdout, pc, name, version, p, v, pkgs, ret>>

\* default: return nil, nil, ...
PkgUnexpectedTag ==
    /\ pc = "scan"
    /\ i <= Len(stdout)
    /\ stdout[i] # ""
    /\ LET cut == CutLine[stdout[i]]
       IN  /\ cut.found
           /\ cut.before \notin {"Info.plist", "CFBundleShortVersionString"}
           /\ ret' = PkgFailure("unexpected installed packages line tag. expected: [\"Info.plist\", \"CFBundleShortVersionString\"], actual: \""
                                    \o cut.before \o "\"")
    /\ pc' = "done"
    /\ UNCHANGED <<stdout, i, name, version, p, v, pkgs>>

\* AtEndOfInput without storing the pending record.
AtEndOfInputNoFinalize(m, path, ver, scanErr) ==
    [pkgs |-> m,
     ret  |-> IF scanErr THEN PkgFailure(ScanErr)
                         ELSE [pkgs |-> <<m>>, srcPkgs |-> NilRef, err |-> Nil]]

\* After the loop: the pending record is stored, then scanner.Err() decides
\* between (nil, nil, err) and (pkgs, nil, nil).
AtEndOfInput(m, path, ver, scanErr) ==
    LET stored == Finalize(m, path, ver)
    IN  [pkgs |-> stored,
         ret  |-> IF scanErr THEN PkgFailure(ScanErr)
                             ELSE [pkgs |-> <<stored>>, srcPkgs |-> NilRef, err |-> Nil]]

PkgReturn ==
    /\ pc = "scan"
    /\ i > Len(stdout)
    /\ \E scanErr \in BOOLEAN :
          LET end == AtEndOfInput(pkgs, p, v, scanErr)
          IN  pkgs' = end.pkgs /\ ret' = end.ret
    /\ pc' = "done"
    /\ UNCHANGED <<stdout, i, name, version, p, v>>

NextInstalled ==
    \/ PkgBlankLine
    \/ PkgNoColon
    \/ PkgInfoPlist
    \/ PkgShortVersion
    \/ PkgUnexpectedTag
    \/ PkgReturn

SpecInstalled == InitInstalled /\ [][NextInstalled]_vars

(***************************************************************************)
(* Properties of parseInstalledPackages.  What a line of the inventory     *)
(* text says is written down here line by line, independently of the       *)
(* parser.                                                                 *)
(***************************************************************************)
PkgKind(line) ==
    CASE line = "" -> "blank"
      [] line \in { "Info.plist: /Applications/Visual Studio Code.app/Contents/Info.plist",
                    "Info.plist: /Applications/Safari.app/Contents/Info.plist",
                    "Info.plist: /System/Applications/Safari.app/Contents/Info.plist",
                    "Info.plist:" } -> "path"
      [] line = "Safari 16.5.1" -> "nocolon"
      [] line = "BuildVersion: 22F82" -> "badtag"
      [] OTHER -> "version"

\* The application a path-label line names; "" for the line without a path.
PkgName(line) ==
    CASE line = "Info.plist: /Applications/Visual Studio Code.app/Contents/Info.plist"
              -> "Visual Studio Code"
      [] line = "Info.plist: /Applications/Safari.app/Contents/Info.plist" -> "Safari"
      [] line = "Info.plist: /System/Applications/Safari.app/Contents/Info.plist" -> "Safari"
      [] OTHER -> ""

\* The trimmed value of a version-label line.
PkgValue(line) ==
    CASE line = "CFBundleShortVersionString: 16.5.1\t" -> "16.5.1"
      [] line = "CFBundleShortVersionString: /System/Applications/Contacts.app/Contents/Info.plist: Could not extract value, error: No value at that key path or invalid key path: CFBundleShortVersionString\t"
              -> "/System/Applications/Contacts.app/Contents/Info.plist: Could not extract value, error: No value at that key path or invalid key path: CFBundleShortVersionString"
      [] line = "CFBundleShortVersionString: error: No value at that key path or invalid key path: CFBundleShortVersionString"
              -> "error: No value at that key path or invalid key path: CFBundleShortVersionString"
      [] OTHER -> ""

\* The sentinel as the specification words it, and the suffix of it that
\* marks a missing version.
SentinelText ==
    "Could not extract value, error: No value at that key path or invalid key path: CFBundleShortVersionString"

SentinelSuffix ==
    "error: No value at that key path or invalid key path: CFBundleShortVersionString"

\* The version a version-label line stands for.
PkgVersion(line) ==
    IF HasSuffix(PkgValue(line), SentinelSuffix) THEN "" ELSE PkgValue(line)

ErrLineFormat(line) ==
    "unexpected installed packages line. expected: \"<TAG>: <VALUE>\", actual: \""
        \o line \o "\""

ErrTag(tag) ==
    "unexpected installed packages line tag. expected: [\"Info.plist\", \"CFBundleShortVersionString\"], actual: \""
        \o tag \o "\""

LinesOfKind(kinds) == {k \in 1..Len(stdout) : PkgKind(stdout[k]) \in kinds}

\* Lines j and k belong to the same block: no blank line between them.
SameBlock(j, k) ==
    \A b \in 1..Len(stdout) :
        ((j < b /\ b < k) \/ (k < b /\ b < j)) => stdout[b] # ""

\* The path-label lines a record is built from: the last one of its block,
\* when it carries a path.
RecordLines ==
    {k \in LinesOfKind({"path"}) :
        /\ PkgName(stdout[k]) # ""
        /\ \A j \in LinesOfKind({"path"}) : (j > k) => ~SameBlock(j, k)}

\* The version of the block of line k: that of its last version-label line,
\* "" without one.
BlockVersion(k) ==
    LET vs == {j \in LinesOfKind({"version"}) : SameBlock(j, k)}
    IN  IF vs = {} THEN "" ELSE PkgVersion(stdout[Max(vs)])

\* The scan met no malformed line and the scanner no error: the parse
\* returned an inventory.
Parsed == pc = "done" /\ ret.err = Nil

Inventory == ret.pkgs[1]

\* Every line of the text is a blank, a path-label or a version-label line.
NoBadLine == LinesOfKind({"nocolon", "badtag"}) = {}

\* The first malformed line of the text (0: none).
FirstBad ==
    IF NoBadLine THEN 0 ELSE Min(LinesOfKind({"nocolon", "badtag"}))

\* The error the first malformed line stands for.
FirstBadErr ==
    IF PkgKind(stdout[FirstBad]) = "nocolon"
    THEN ErrLineFormat(stdout[FirstBad])
    ELSE ErrTag("BuildVersion")
\* A well-formed inventory text: blocks separated by blank lines, each one
\* path-label line with a path, optionally followed by one version-label
\* line; no two blocks name the same application.
WellFormed ==
    /\ NoBadLine
    /\ \A k \in LinesOfKind({"path"}) :
          /\ PkgName(stdout[k]) # ""
          /\ k = 1 \/ PkgKind(stdout[k - 1]) = "blank"
          /\ \A j \in LinesOfKind({"path"}) :
                PkgName(stdout[j]) = PkgName(stdout[k]) => j = k
    /\ \A k \in LinesOfKind({"version"}) :
          k > 1 /\ PkgKind(stdout[k - 1]) = "path"

\* The version line of the well-formed block that starts at line k, if any.
VersionAfter(k) ==
    IF k < Len(stdout) /\ PkgKind(stdout[k + 1]) = "version"
    THEN PkgVersion(stdout[k + 1])
    ELSE ""

\* C3: a well-formed inventory text parses, with no error, into exactly one
\* entry per block: keyed by the name derived from the block's path, Name
\* equal to the key, Version the trimmed version value, or "" for a block
\* without version line or with the sentinel.
C3_WellFormedInventory ==
    (pc = "done" /\ ret.err # ScanErr /\ WellFormed)
        => /\ ret.err = Nil
           /\ ret.srcPkgs = NilRef
           /\ Len(ret.pkgs) = 1
           /\ DOMAIN Inventory = {PkgName(stdout[k]) : k \in LinesOfKind({"path"})}
           /\ Cardinality(DOMAIN Inventory) = Cardinality(LinesOfKind({"path"}))
           /\ \A k \in LinesOfKind({"path"}) :
                 Inventory[PkgName(stdout[k])] =
                     [Name |-> PkgName(stdout[k]), Version |-> VersionAfter(k)]

\* Two well-formed blocks, one with a version line and one without, parsed
\* into two entries.
C3_Witness ==
    /\ Parsed
    /\ WellFormed
    /\ Cardinality(LinesOfKind({"path"})) = 2
    /\ DOMAIN Inventory = {"Visual Studio Code", "Safari"}
    /\ Inventory["Visual Studio Code"].Version = "16.5.1"
    /\ Inventory["Safari"].Version = ""
\* The parse stopped at line i with an error about that line.
StoppedAtLine == pc = "done" /\ ret.err \notin {Nil, ScanErr}

\* C4: the version of a version-label line is stored as "" exactly when
\* its trimmed value ends with the suffix "error: No value at that key path
\* or invalid key path: CFBundleShortVersionString"; any other value is
\* stored as its trimmed text, and a version-label line is never the line a
\* parse error is about.
C4_SentinelSuffix ==
    /\ (i > 1 /\ PkgKind(stdout[i - 1]) = "version")
          => v = IF HasSuffix(PkgValue(stdout[i - 1]), SentinelSuffix)
                 THEN ""
                 ELSE PkgValue(stdout[i - 1])
    /\ StoppedAtLine => PkgKind(stdout[i]) # "version"

\* The version-label line with the whole sentinel text has just been
\* read: the pending version is empty and the scan goes on.
C4_Witness ==
    /\ pc = "scan"
    /\ i > 1
    /\ PkgKind(stdout[i - 1]) = "version"
    /\ HasSuffix(PkgValue(stdout[i - 1]), SentinelText)
    /\ v = ""

\* C4 as stated: "" exactly when the trimmed value ends with the whole
\* sentinel text "Could not extract value, error: No value at that key path
\* or invalid key path: CFBundleShortVersionString".
C4_WholeSentinelOnly ==
    /\ (i > 1 /\ PkgKind(stdout[i - 1]) = "version")
          => v = IF HasSuffix(PkgValue(stdout[i - 1]), SentinelText)
                 THEN ""
                 ELSE PkgValue(stdout[i - 1])
    /\ StoppedAtLine => PkgKind(stdout[i]) # "version"
\* The record line that writes the entry of its name last.
LastOfName(k) ==
    Max({j \in RecordLines : PkgName(stdout[j]) = PkgName(stdout[k])})

\* Two blocks of the text that yield a record name the same application.
Collision ==
    \E j, k \in RecordLines : j # k /\ PkgName(stdout[j]) = PkgName(stdout[k])

\* C5: when two or more blocks that yield a record derive the same name,
\* the parse is no error, the inventory holds one entry under that name with
\* the version of the last such block, and the entries of the other names
\* are those of their own blocks.
C5_LastWriteWins ==
    (pc = "done" /\ ret.err # ScanErr /\ NoBadLine /\ Collision)
        => /\ ret.err = Nil
           /\ DOMAIN Inventory = {PkgName(stdout[k]) : k \in RecordLines}
           /\ \A k \in RecordLines :
                 Inventory[PkgName(stdout[k])] =
                     [Name    |-> PkgName(stdout[k]),
                      Version |-> BlockVersion(LastOfName(k))]

\* Two blocks of the same name and of different versions: the entry has the
\* version of the later one.
C5_Witness ==
    /\ Parsed
    /\ \E j, k \in RecordLines :
          /\ j < k
          /\ PkgName(stdout[j]) = PkgName(stdout[k])
          /\ stdout[j] # stdout[k]
          /\ BlockVersion(j) # BlockVersion(k)
          /\ Inventory[PkgName(stdout[k])].Version = BlockVersion(k)

\* C6: a non-blank line without a colon anywhere in the text makes the
\* parse fail and return no inventory; the error is the unexpected-line
\* error of that line when it is the first malformed line of the text, and
\* the unexpected-tag error of the earlier line when a line with an
\* unknown tag precedes it.
C6_NoColonFails ==
    (pc = "done" /\ LinesOfKind({"nocolon"}) # {})
        => /\ ret.pkgs = NilRef
           /\ ret.srcPkgs = NilRef
           /\ ret.err = FirstBadErr
           /\ PkgKind(stdout[FirstBad]) = "nocolon"
                 => ret.err = ErrLineFormat(stdout[FirstBad])

\* A block has been stored, then a line without a colon is met: the
\* unexpected-line error and no inventory.
C6_Witness ==
    /\ StoppedAtLine
    /\ DOMAIN pkgs # {}
    /\ PkgKind(stdout[i]) = "nocolon"
    /\ ret = [pkgs |-> NilRef, srcPkgs |-> NilRef, err |-> ErrLineFormat("Safari 16.5.1")]

\* C6 as stated: the error is the unexpected-line error wherever the line
\* without a colon stands in the text.
C6_AlwaysLineFormatError ==
    (pc = "done" /\ LinesOfKind({"nocolon"}) # {})
        => /\ ret.pkgs = NilRef
           /\ \E k \in LinesOfKind({"nocolon"}) : ret.err = ErrLineFormat(stdout[k])

\* C7: the parse stops at the first malformed line of the text with the
\* error of that line (the unexpected-tag error naming the tag, for a line
\* with an unknown tag), whatever follows it; every error returns neither
\* inventory nor secondary structure.
C7_FirstOffendingLine ==
    pc = "done"
        => /\ FirstBad # 0 => (i = FirstBad /\ ret.err = FirstBadErr)
           /\ FirstBad = 0 => ret.err \in {Nil, ScanErr}
           /\ ret.err # Nil => (ret.pkgs = NilRef /\ ret.srcPkgs = NilRef)

\* A line with an unknown tag followed by a line without a colon: the
\* unexpected-tag error naming BuildVersion.
C7_Witness ==
    /\ StoppedAtLine
    /\ PkgKind(stdout[i]) = "badtag"
    /\ \E k \in LinesOfKind({"nocolon"}) : k > i
    /\ ret = [pkgs |-> NilRef, srcPkgs |-> NilRef, err |-> ErrTag("BuildVersion")]

\* C8: at the end of the input, returning at once and reading one more
\* blank line before returning give the same result, for a scanner that
\* ends with an error and for one that ends without.
C8_EndOfInputAsBlankLine ==
    (pc = "scan" /\ i > Len(stdout))
        => \A scanErr \in BOOLEAN :
              AtEndOfInput(pkgs, p, v, scanErr).ret =
                  AtEndOfInput(AtBlankLine(pkgs, p, v).pkgs,
                               AtBlankLine(pkgs, p, v).p,
                               AtBlankLine(pkgs, p, v).v, scanErr).ret

\* The input ends with a record pending, path and version set.
C8_Witness ==
    /\ pc = "scan"
    /\ i > Len(stdout)
    /\ p # ""
    /\ v # ""
    /\ Len(stdout) > 2

\* The last blank line before the line the scan is at (0: none).
LastBlank == Max({0} \cup {b \in LinesOfKind({"blank"}) : b < i})

\* C9: a blank line clears the pending path and the pending version: what
\* is pending comes from the lines after the last blank line only, a block
\* without path-label line adds no entry and is no error, and a block with
\* a path but no version line gets the version "".
C9_BlankLineClears ==
    /\ pc = "scan"
          => /\ (\A j \in (LastBlank + 1)..(i - 1) : PkgKind(stdout[j]) # "path")
                    => p = ""
             /\ (\A j \in (LastBlank + 1)..(i - 1) : PkgKind(stdout[j]) # "version")
                    => v = ""
             /\ DOMAIN pkgs \subseteq
                    {PkgName(stdout[j]) : j \in {k \in LinesOfKind({"path"}) : k < LastBlank}}
    /\ (pc = "done" /\ ret.err # ScanErr /\ NoBadLine)
          => /\ ret.err = Nil
             /\ DOMAIN Inventory = {PkgName(stdout[k]) : k \in RecordLines}
             /\ \A k \in RecordLines :
                   (k = LastOfName(k)
                      /\ \A j \in LinesOfKind({"version"}) : ~SameBlock(j, k))
                       => Inventory[PkgName(stdout[k])].Version = ""

\* A block of one version-label line with a version, a blank line, then a
\* block of one path-label line: its entry has the version "".
C9_Witness ==
    /\ Parsed
    /\ Len(stdout) >= 3
    /\ PkgVersion(stdout[1]) # ""
    /\ PkgKind(stdout[2]) = "blank"
    /\ 3 \in RecordLines
    /\ Inventory[PkgName(stdout[3])].Version = ""

\* All path-label lines of the text stand in one block.
OneRecordBlock ==
    /\ NoBadLine
    /\ LinesOfKind({"path"}) # {}
    /\ \A j, k \in LinesOfKind({"path"}) : SameBlock(j, k)

LastPath == Max(LinesOfKind({"path"}))

\* C10: a block yields the record of its last path-label line and its last
\* version-label line, whatever their order: one record and no error when
\* that last path-label line carries a path, and no record and no error when
\* its path is empty.
C10_LastPathAndVersion ==
    (pc = "done" /\ ret.err # ScanErr /\ OneRecordBlock)
        => /\ ret.err = Nil
           /\ Len(ret.pkgs) = 1
           /\ PkgName(stdout[LastPath]) # ""
                 => /\ DOMAIN Inventory = {PkgName(stdout[LastPath])}
                    /\ Inventory[PkgName(stdout[LastPath])] =
                           [Name    |-> PkgName(stdout[LastPath]),
                            Version |-> BlockVersion(LastPath)]
           /\ PkgName(stdout[LastPath]) = "" => DOMAIN Inventory = {}

\* A version-label line, then two path-label lines of different names in
\* the same block: the record is that of the second path with the version.
C10_Witness ==
    /\ Parsed
    /\ OneRecordBlock
    /\ \E j, k \in LinesOfKind({"path"}) :
          /\ j < k
          /\ k = LastPath
          /\ PkgName(stdout[j]) \notin {"", PkgName(stdout[k])}
          /\ \E u \in LinesOfKind({"version"}) :
                u < j /\ SameBlock(u, k) /\ PkgVersion(stdout[u]) # ""
    /\ Inventory[PkgName(stdout[LastPath])].Version = "16.5.1"

\* A path-label line of the block is repeated, or a version-label line
\* stands before a path-label line.
OutOfOrderBlock ==
    /\ OneRecordBlock
    /\ \/ Cardinality(LinesOfKind({"path"})) > 1
       \/ \E u \in LinesOfKind({"version"}) : u < LastPath /\ SameBlock(u, LastPath)

\* C10 as stated: such a block always yields exactly one record.
C10_AlwaysOneRecord ==
    (pc = "done" /\ ret.err # ScanErr /\ OutOfOrderBlock)
        => /\ ret.err = Nil
           /\ Len(ret.pkgs) = 1
           /\ Cardinality(DOMAIN Inventory) = 1
           /\ PkgName(stdout[LastPath]) # ""
                 => Inventory[PkgName(stdout[LastPath])] =
                        [Name    |-> PkgName(stdout[LastPath]),
                         Version |-> BlockVersion(LastPath)]
====
